---------------------------- MODULE Spec2Model ----------------------------
(***************************************************************************)
(* Approval orchestration of the Torus wallet (app/src/store/store.js):    *)
(* the pending-request registry (four keyed collections of the Vuex        *)
(* state), the selection and classification functions                      *)
(* getLatestMessageParams and isTorusTransaction, the decision handlers    *)
(* handleConfirm and handleDeny, and the showPopup action with its channel *)
(* listener and its confirmTimer watchdog.                                 *)
(*                                                                         *)
(* Object keys are modelled as naturals 1..MaxId (for-in enumerates        *)
(* integer-like keys in ascending order); JavaScript's undefined and NaN   *)
(* are the values Undefined and NaN, which are no key.                     *)
(*                                                                         *)
(* The provider side (the inpage script) is modelled next to it: the       *)
(* transformStream that rewrites params[0].from, and the middleware stack  *)
(* of rpcEngine (origin, logger, filter, provider); and so is the          *)
(* network-change surface (views/ProviderChange/ProviderChange.vue).       *)
(***************************************************************************)
EXTENDS Integers, Sequences, FiniteSets, TLC

\* ------------------------------------------------------------------ bounds
MaxId == 2
MaxTime == 2
MaxEntries == 3
MaxPending == 2
MaxSessions == 2
MaxInbox == 1

Ids == 1..MaxId
Times == 1..MaxTime

\* undefined and NaN, as numbers that are no key.
Undefined == 0
NaN == -1

MsgKinds == {"plain", "personal", "typed"}
Kinds == MsgKinds \cup {"transaction"}
TxStatuses == {"unapproved", "approved", "rejected"}

VARIABLES
  unapprovedMsgs,           \* state.unapprovedMsgs: id -> [time, data, message, typedMessages]
  unapprovedPersonalMsgs,   \* state.unapprovedPersonalMsgs: id -> [time, data, message, typedMessages]
  unapprovedTypedMessages,  \* state.unapprovedTypedMessages: id -> [time, data, message, typedMessages]
  transactions,             \* state.transactions: id -> [status]
  sessions,                 \* one record per showPopup invocation (its closure)
  calls,                    \* the calls made on torusController, in order
  created,                  \* the number of requests created so far
  last,                     \* the handler (and branch) that ran last
  ret,                      \* the value returned by the function applied last
  written,                  \* the chunk written to transformStream
  emitted,                  \* the cb(err, chunk) of each transform, in order
  runs,                     \* one record per request handled by rpcEngine
  surface,                  \* the ProviderChange component and its window
  channelLog                \* the operations of the component on its channel
                            \* handles and its window, in order

\* The state of the provider side (inpage): the stream transform and the
\* middleware stack of rpcEngine.
pipeline == <<written, emitted, runs>>

\* The state of the network-change surface (ProviderChange.vue).
providerChange == <<surface, channelLog>>

vars == <<unapprovedMsgs, unapprovedPersonalMsgs, unapprovedTypedMessages,
          transactions, sessions, calls, created, last, ret, pipeline,
          providerChange>>

\* The state of the store side.
store == <<unapprovedMsgs, unapprovedPersonalMsgs, unapprovedTypedMessages,
           transactions, sessions, calls, created, last, ret>>

registry == <<unapprovedMsgs, unapprovedPersonalMsgs, unapprovedTypedMessages,
              transactions>>

\* ------------------------------------------------------- transformStream
\* Characters of the strings a request's from can be, the longest string and
\* the number of times the transform is applied to one chunk.
MaxStr == 4
MaxApplied == 2
Chars == {"0", "x", "1", "a"}
HexDigits == {"0", "1", "a"}

HexVal(c) == CASE c = "0" -> 0 [] c = "1" -> 1 [] c = "a" -> 10

Strings == UNION {[1..n -> Chars] : n \in 0..MaxStr}

\* The values of chunk.params[0].from: its type, its characters when it is
\* a string, its bytes when it is a Buffer.
NoFrom == [t |-> "undefined", s |-> <<>>, b |-> <<>>]
Null == [t |-> "null", s |-> <<>>, b |-> <<>>]
EmptyArray == [t |-> "Array", s |-> <<>>, b |-> <<>>]
Str(s) == [t |-> "string", s |-> s, b |-> <<>>]
Buf(b) == [t |-> "Buffer", s |-> <<>>, b |-> b]

Froms ==
  {NoFrom, Null, EmptyArray} \cup {Str(s) : s \in Strings}
    \cup {Buf(b) : b \in {<<>>, <<10>>, <<161>>}}

\* JavaScript truthiness: objects (Buffer, Array) and non-empty strings.
Truthy(v) == v.t \in {"Buffer", "Array"} \/ (v.t = "string" /\ v.s # <<>>)

\* The bytes of the hex pairs of str, up to the first pair that is not hex
\* (or the odd last character), and whether str was hex throughout.
RECURSIVE hexDecode(_)
hexDecode(str) ==
  IF Len(str) = 0 THEN [ok |-> TRUE, bytes |-> <<>>]
  ELSE IF Len(str) = 1 \/ str[1] \notin HexDigits \/ str[2] \notin HexDigits
  THEN [ok |-> FALSE, bytes |-> <<>>]
  ELSE LET rest == hexDecode(SubSeq(str, 3, Len(str)))
       IN [ok |-> rest.ok,
           bytes |-> <<16 * HexVal(str[1]) + HexVal(str[2])>> \o rest.bytes]

\* The requests written to the stream: method, whether params[0] exists,
\* params[0].from, params[0].to and id.
Methods == {"eth_call", "eth_estimateGas", "eth_getBalance"}
NoChunk == [method |-> "null", params |-> FALSE, from |-> NoFrom, to |-> "", id |-> 0]

Chunks ==
  [method : Methods, params : {TRUE}, from : Froms, to : {"a", "b"}, id : {1}]
    \cup [method : Methods, params : {FALSE}, from : {NoFrom}, to : {""}, id : {1}]

\* A variant of the rewriting that turns a 0x-prefixed string into the bytes
\* of its characters without decoding the hex, and keeps an absent from.
RewrittenRaw(from, strict) ==
  IF Truthy(from) /\ from.t = "string"
  THEN IF Len(from.s) >= 2 /\ SubSeq(from.s, 1, 2) = <<"0", "x">>
       THEN [threw |-> FALSE,
             from |-> Buf([i \in 1..(Len(from.s) - 2) |-> HexVal(from.s[i + 2])])]
       ELSE [threw |-> FALSE, from |-> from]
  ELSE [threw |-> FALSE, from |-> from]

\* A variant of the rewriting that replaces an absent from by the string
\* '0x' instead of the empty array.
RewrittenAbsentAsHex(from, strict) ==
  IF Truthy(from) /\ from.t = "string"
  THEN IF Len(from.s) >= 2 /\ SubSeq(from.s, 1, 2) = <<"0", "x">>
       THEN LET hex == hexDecode(SubSeq(from.s, 3, Len(from.s)))
            IN IF strict /\ ~hex.ok THEN [threw |-> TRUE, from |-> from]
               ELSE [threw |-> FALSE, from |-> Buf(hex.bytes)]
       ELSE [threw |-> FALSE, from |-> from]
  ELSE IF ~Truthy(from) THEN [threw |-> FALSE, from |-> Str(<<"0", "x">>)]
  ELSE [threw |-> FALSE, from |-> from]

\* The new value of chunk.params[0].from for the two simulation methods.
\* Buffer.from(str, 'hex') of a string that is not hex throughout throws in
\* a strict build of the buffer library and truncates in a lenient one.
Rewritten(from, strict) ==
  IF Truthy(from) /\ from.t = "string"
  THEN IF Len(from.s) >= 2 /\ SubSeq(from.s, 1, 2) = <<"0", "x">>
       THEN LET hex == hexDecode(SubSeq(from.s, 3, Len(from.s)))
            IN IF strict /\ ~hex.ok THEN [threw |-> TRUE, from |-> from]
               ELSE [threw |-> FALSE, from |-> Buf(hex.bytes)]
       ELSE [threw |-> FALSE, from |-> from]
  ELSE IF ~Truthy(from) THEN [threw |-> FALSE, from |-> EmptyArray]
  ELSE [threw |-> FALSE, from |-> from]

\* A variant of the transform that rewrites from whatever the method is.
transformAnyMethod(chunk, strict) ==
  IF ~chunk.params THEN [err |-> TRUE, chunk |-> NoChunk]
  ELSE IF Rewritten(chunk.from, strict).threw THEN [err |-> TRUE, chunk |-> NoChunk]
  ELSE [err |-> FALSE,
        chunk |-> [chunk EXCEPT !.from = Rewritten(chunk.from, strict).from]]

\* A variant of the transform that emits a simulation request without
\* params[0] as it came.
transformLenient(chunk, strict) ==
  IF chunk.method = "eth_call" \/ chunk.method = "eth_estimateGas"
  THEN IF ~chunk.params THEN [err |-> FALSE, chunk |-> chunk]
       ELSE IF Rewritten(chunk.from, strict).threw
       THEN [err |-> TRUE, chunk |-> NoChunk]
       ELSE [err |-> FALSE,
             chunk |-> [chunk EXCEPT !.from = Rewritten(chunk.from, strict).from]]
  ELSE [err |-> FALSE, chunk |-> chunk]

\* transform(chunk, enc, cb): what cb is called with. Reading
\* chunk.params[0].from when params[0] does not exist is a TypeError, which
\* the catch turns into cb(err, null).
transform(chunk, strict) ==
  IF chunk.method = "eth_call" \/ chunk.method = "eth_estimateGas"
  THEN IF ~chunk.params THEN [err |-> TRUE, chunk |-> NoChunk]
       ELSE IF Rewritten(chunk.from, strict).threw
       THEN [err |-> TRUE, chunk |-> NoChunk]
       ELSE [err |-> FALSE,
             chunk |-> [chunk EXCEPT !.from = Rewritten(chunk.from, strict).from]]
  ELSE [err |-> FALSE, chunk |-> chunk]

IdlePipeline ==
  /\ written = NoChunk
  /\ emitted = <<>>
  /\ runs = <<>>

\* The chunk the next transform is applied to: the one written, or the one
\* the transform emitted last.
Current == IF emitted = <<>> THEN written ELSE emitted[Len(emitted)].chunk

\* One call of transformStream's transform; strict tells which build of
\* the buffer library runs. An error ends the stream.
Transform(strict) ==
  /\ Len(emitted) < MaxApplied
  /\ IF emitted = <<>> THEN TRUE ELSE ~emitted[Len(emitted)].err
  /\ emitted' = Append(emitted, transform(Current, strict))
  /\ UNCHANGED <<written, runs, store, providerChange>>

\* --------------------------------------------------------------- rpcEngine
\* The requests handled at the same time, and the requests of the model:
\* their method and whether they carry isMetamaskInternal.
MaxRequests == 2
FilterMethods == {"eth_newFilter"}
RpcRequests ==
  [method : {"eth_getBalance", "eth_newFilter"}, isMetamaskInternal : BOOLEAN,
   origin : {"undefined"}]

\* The middleware in the order of the rpcEngine.push calls.
Stack == <<"origin", "logger", "filter", "provider">>

\* The run of one request through the stack: the request and the response,
\* the phase of the engine (down the stack at stage `at`, waiting for the
\* callback of provider.sendAsync, up the return handlers, done with the
\* response handed back, or hung on a return handler that never calls
\* back), the return handlers given to next, and two histories: the stages
\* entered with the origin the request carried then, and the calls of next
\* and end.
NewRun(req) ==
  [ req |-> req,
    res |-> [result |-> FALSE, error |-> FALSE],
    phase |-> "down",
    at |-> 1,
    handlers |-> <<>>,
    entered |-> <<>>,
    called |-> <<>> ]

\* The stage is entered, and calls next (with a return handler or without)
\* or end: the engine moves to the following stage or turns back.
Entered(run, stage) ==
  [run EXCEPT !.entered = Append(@, [stage |-> stage, origin |-> run.req.origin])]

CalledNext(run, stage, handler) ==
  [run EXCEPT !.called = Append(@, [stage |-> stage, call |-> "next"]),
              !.at = @ + 1,
              !.handlers = IF handler THEN <<stage>> \o @ ELSE @]

CalledEnd(run, stage) ==
  [run EXCEPT !.called = Append(@, [stage |-> stage, call |-> "end"]),
              !.phase = "up"]

AtStage(r, stage) ==
  /\ r \in DOMAIN runs
  /\ runs[r].phase = "down"
  /\ Stack[runs[r].at] = stage

\* rpcEngine.handle(req, cb), called by the engine stream for a chunk.
Handle(req) ==
  /\ Len(runs) < MaxRequests
  /\ runs' = Append(runs, NewRun(req))
  /\ UNCHANGED <<written, emitted, store, providerChange>>

\* A variant of originMiddleware that does not set req.origin.
OriginMiddlewareNoOrigin(r) ==
  /\ AtStage(r, "origin")
  /\ runs' = [runs EXCEPT ![r] = CalledNext(Entered(@, "origin"), "origin", FALSE)]
  /\ UNCHANGED <<written, emitted, store, providerChange>>

\* originMiddleware(req, res, next): req.origin = opts.origin; next()
OriginMiddleware(r) ==
  /\ AtStage(r, "origin")
  /\ runs' = [runs EXCEPT ![r] =
       CalledNext([Entered(@, "origin") EXCEPT !.req.origin = "torus"],
                  "origin", FALSE)]
  /\ UNCHANGED <<written, emitted, store, providerChange>>

\* loggerMiddleware(req, res, next): next(cb => ...)
LoggerMiddleware(r) ==
  /\ AtStage(r, "logger")
  /\ runs' = [runs EXCEPT ![r] = CalledNext(Entered(@, "logger"), "logger", TRUE)]
  /\ UNCHANGED <<written, emitted, store, providerChange>>

\* filterMiddleware: answers the filter methods itself and hands the other
\* requests on.
FilterMiddleware(r) ==
  /\ AtStage(r, "filter")
  /\ runs' = [runs EXCEPT ![r] =
       IF @.req.method \in FilterMethods
       THEN CalledEnd([Entered(@, "filter") EXCEPT !.res.result = TRUE], "filter")
       ELSE CalledNext(Entered(@, "filter"), "filter", FALSE)]
  /\ UNCHANGED <<written, emitted, store, providerChange>>

\* The provider middleware: provider.sendAsync(req, callback)
ProviderMiddleware(r) ==
  /\ AtStage(r, "provider")
  /\ runs' = [runs EXCEPT ![r] = [Entered(@, "provider") EXCEPT !.phase = "sendAsync"]]
  /\ UNCHANGED <<written, emitted, store, providerChange>>

\* A variant of the callback without the return of `return end(err)`.
SendAsyncCallbackNoReturn(r, err) ==
  /\ r \in DOMAIN runs
  /\ runs[r].phase = "sendAsync"
  /\ runs' = [runs EXCEPT ![r] =
       IF err
       THEN CalledEnd(CalledEnd([@ EXCEPT !.res.error = TRUE], "provider"), "provider")
       ELSE CalledEnd([@ EXCEPT !.res.result = TRUE], "provider")]
  /\ UNCHANGED <<written, emitted, store, providerChange>>

\* The callback of provider.sendAsync:
\* if (err) return end(err); res.result = _res.result; end()
SendAsyncCallback(r, err) ==
  /\ r \in DOMAIN runs
  /\ runs[r].phase = "sendAsync"
  /\ runs' = [runs EXCEPT ![r] =
       IF err
       THEN CalledEnd([@ EXCEPT !.res.error = TRUE], "provider")
       ELSE CalledEnd([@ EXCEPT !.res.result = TRUE], "provider")]
  /\ UNCHANGED <<written, emitted, store, providerChange>>

\* A variant of the return handler that takes the error off the response.
LoggerReturnHandlerScrubs(r) ==
  /\ r \in DOMAIN runs
  /\ runs[r].phase = "up"
  /\ runs[r].handlers # <<>>
  /\ runs' = [runs EXCEPT ![r] =
       IF @.req.isMetamaskInternal
       THEN [@ EXCEPT !.phase = "hung"]
       ELSE [@ EXCEPT !.handlers = Tail(@), !.res.error = FALSE]]
  /\ UNCHANGED <<written, emitted, store, providerChange>>

\* The return handler of loggerMiddleware:
\* if (req.isMetamaskInternal) return; log.info(...); cb()
\* The engine waits for cb before it goes on.
LoggerReturnHandler(r) ==
  /\ r \in DOMAIN runs
  /\ runs[r].phase = "up"
  /\ runs[r].handlers # <<>>
  /\ runs' = [runs EXCEPT ![r] =
       IF @.req.isMetamaskInternal
       THEN [@ EXCEPT !.phase = "hung"]
       ELSE [@ EXCEPT !.handlers = Tail(@)]]
  /\ UNCHANGED <<written, emitted, store, providerChange>>

\* The engine hands the response back once every return handler called back.
Respond(r) ==
  /\ r \in DOMAIN runs
  /\ runs[r].phase = "up"
  /\ runs[r].handlers = <<>>
  /\ runs' = [runs EXCEPT ![r].phase = "done"]
  /\ UNCHANGED <<written, emitted, store, providerChange>>

\* ---------------------------------------------------------- ProviderChange
\* The clicks one surface can take, and the messages its listener can be
\* handed: a payload (network, type, origin) or a message without payload.
MaxClicks == 2
Networks == {"mainnet", "rinkeby", "localhost"}
PayloadTypes == {"rpc", "undefined"}
Origins == {"https://app.example", "not a url"}
NoPayload == [network |-> "undefined", type |-> "undefined"]
Payloads == [network : Networks, type : PayloadTypes]
SurfaceMessages ==
  [payload : Payloads, hasPayload : {TRUE}, origin : Origins]
    \cup [payload : {NoPayload}, hasPayload : {FALSE}, origin : {"not a url"}]

\* new URL(origin).hostname, '' when origin is no URL.
hostname(origin) == IF origin = "https://app.example" THEN "app.example" ELSE ""

\* An operation of the component: a postMessage on a channel handle (with
\* the type, approve and payload of its data), the close of a handle, or
\* window.close(); `by` is the method that made it and `click` the number
\* of the user action it belongs to (0 for mounted).
Op(op, by, click, type, approve, payload) ==
  [op |-> op, by |-> by, click |-> click, type |-> type, approve |-> approve,
   payload |-> payload]

\* data() of the component, with the channel handle of mounted and the
\* window; closable tells whether the browser lets the script close it.
NewSurface(closable) ==
  [ mounted |-> FALSE,
    bc |-> "none",
    origin |-> "",
    type |-> "none",
    network |-> "",
    rpcNetwork |-> "undefined",
    payload |-> NoPayload,
    window |-> "open",
    closable |-> closable,
    clicks |-> 0 ]

IdleSurface ==
  /\ surface = NewSurface(TRUE)
  /\ channelLog = <<>>

\* The template: the page loader is shown while type is 'none', the
\* Cancel and Confirm buttons otherwise.
ButtonsRendered == surface.type # "none"

\* mounted(): the handle is created, the listener set, 'popup-loaded' posted.
Mounted ==
  /\ ~surface.mounted
  /\ surface.window = "open"
  /\ surface' = [surface EXCEPT !.mounted = TRUE, !.bc = "open"]
  /\ channelLog' = Append(channelLog,
       Op("postMessage", "mounted", 0, "popup-loaded", "undefined", NoPayload))
  /\ UNCHANGED <<store, pipeline>>

\* A variant of the listener that leaves out bc.close().
SurfaceOnMessageKeepsListening(msg) ==
  /\ surface.bc = "open"
  /\ surface.window = "open"
  /\ IF msg.hasPayload
     THEN /\ surface' = [surface EXCEPT
               !.payload = msg.payload,
               !.origin = hostname(msg.origin),
               !.type = IF msg.payload.type = "rpc" THEN "rpc" ELSE "non-rpc",
               !.rpcNetwork = IF msg.payload.type = "rpc"
                              THEN msg.payload.network ELSE @,
               !.network = IF msg.payload.type = "rpc"
                           THEN @ ELSE msg.payload.network]
          /\ UNCHANGED channelLog
     ELSE UNCHANGED <<surface, channelLog>>
  /\ UNCHANGED <<store, pipeline>>

\* bc.onmessage of mounted. Destructuring the payload of a message that has
\* none is a TypeError: nothing is set and the handle stays open.
SurfaceOnMessage(msg) ==
  /\ surface.bc = "open"
  /\ surface.window = "open"
  /\ IF msg.hasPayload
     THEN /\ surface' = [surface EXCEPT
               !.payload = msg.payload,
               !.origin = hostname(msg.origin),
               !.type = IF msg.payload.type = "rpc" THEN "rpc" ELSE "non-rpc",
               !.rpcNetwork = IF msg.payload.type = "rpc"
                              THEN msg.payload.network ELSE @,
               !.network = IF msg.payload.type = "rpc"
                           THEN @ ELSE msg.payload.network,
               !.bc = "closed"]
          /\ channelLog' = Append(channelLog,
               Op("close", "onmessage", 0, "none", "undefined", NoPayload))
     ELSE UNCHANGED <<surface, channelLog>>
  /\ UNCHANGED <<store, pipeline>>

\* window.close() of the click counted `click`.
WindowClosed(click) ==
  [surface EXCEPT !.clicks = click,
                  !.window = IF surface.closable THEN "closed" ELSE "open"]

\* A variant of triggerSign that closes its handle and the window without
\* posting the decision.
triggerSignSilent ==
  /\ surface.window = "open"
  /\ ButtonsRendered
  /\ surface.clicks < MaxClicks
  /\ LET click == surface.clicks + 1
     IN /\ channelLog' = channelLog \o
             << Op("close", "triggerSign", click, "none", "undefined", NoPayload),
                Op("window.close", "triggerSign", click, "none", "undefined", NoPayload) >>
        /\ surface' = WindowClosed(click)
  /\ UNCHANGED <<store, pipeline>>

\* triggerSign(event), the click on Confirm.
triggerSign ==
  /\ surface.window = "open"
  /\ ButtonsRendered
  /\ surface.clicks < MaxClicks
  /\ LET click == surface.clicks + 1
     IN /\ channelLog' = channelLog \o
             << Op("postMessage", "triggerSign", click, "confirm-provider-change",
                   "true", surface.payload),
                Op("close", "triggerSign", click, "none", "undefined", NoPayload),
                Op("window.close", "triggerSign", click, "none", "undefined", NoPayload) >>
        /\ surface' = WindowClosed(click)
  /\ UNCHANGED <<store, pipeline>>

\* triggerDeny(event), the click on Cancel.
triggerDeny ==
  /\ surface.window = "open"
  /\ ButtonsRendered
  /\ surface.clicks < MaxClicks
  /\ LET click == surface.clicks + 1
     IN /\ channelLog' = channelLog \o
             << Op("postMessage", "triggerDeny", click, "deny-provider-change",
                   "false", NoPayload),
                Op("close", "triggerDeny", click, "none", "undefined", NoPayload),
                Op("window.close", "triggerDeny", click, "none", "undefined", NoPayload) >>
        /\ surface' = WindowClosed(click)
  /\ UNCHANGED <<store, pipeline>>

\* ------------------------------------------------------------- history
NoReturn == [fn |-> "none"]

\* ev.data of no message.
NoEvent == [type |-> "none", id |-> Undefined]

\* The record of the step taken last: the handler, its session (0 for
\* none), the message it handled and the branch it took.
Step(op, s, ev, branch) == [op |-> op, s |-> s, ev |-> ev, branch |-> branch]

\* ---------------------------------------------------------------- helpers
Min(S) == CHOOSE x \in S : \A y \in S : x <= y

\* Object.keys(obj)
Keys(obj) == DOMAIN obj

\* The collection of the Vuex state that holds the requests of a kind.
Collection(kind) ==
  CASE kind = "plain" -> unapprovedMsgs
    [] kind = "personal" -> unapprovedPersonalMsgs
    [] kind = "typed" -> unapprovedTypedMessages
    [] kind = "transaction" -> transactions

\* parseInt(id, 10): an integer key is itself, undefined is NaN.
parseInt(id) == IF id = Undefined THEN NaN ELSE id

\* getters.unApprovedTransactions: the ids of the transactions whose status is
\* unapproved, in key order.
RECURSIVE UnapprovedFrom(_)
UnapprovedFrom(ids) ==
  IF ids = {} THEN <<>>
  ELSE LET id == Min(ids)
           rest == UnapprovedFrom(ids \ {id})
       IN IF transactions[id].status = "unapproved" THEN <<id>> \o rest ELSE rest

unApprovedTransactions == UnapprovedFrom(Keys(transactions))

\* ------------------------------------------------------------ hexToUtf8
\* The values of msgParams.data: strings over Chars. A request added while
\* the store runs carries DefaultData.
DataValues == {<<"0", "x", "1", "a">>, <<"0", "x", "a", "a">>, <<"1", "a">>,
               <<"0", "x", "0", "0", "1", "a">>}
DefaultData == <<"0", "x", "1", "a">>

\* The values of msgParams.message and msgParams.typedMessages: undefined,
\* the characters of a string taken as it is, or the code points of a
\* decoded text.
NoText == [t |-> "undefined", s |-> <<>>, c |-> <<>>]
RawText(str) == [t |-> "string", s |-> str, c |-> <<>>]
Decoded(codes) == [t |-> "decoded", s |-> <<>>, c |-> codes]

\* web3-utils isHexStrict(hex): /^(-)?0x[0-9a-f]*$/i over Chars.
isHexStrict(str) ==
  /\ Len(str) >= 2
  /\ str[1] = "0"
  /\ str[2] = "x"
  /\ \A i \in 3..Len(str) : str[i] \in HexDigits

\* hex.replace(/^(?:00)*/, '')
RECURSIVE StripLeft(_)
StripLeft(str) ==
  IF Len(str) >= 2 /\ str[1] = "0" /\ str[2] = "0"
  THEN StripLeft(SubSeq(str, 3, Len(str)))
  ELSE str

\* The same replacement on the reversed string, reversed back.
RECURSIVE StripRight(_)
StripRight(str) ==
  IF Len(str) >= 2 /\ str[Len(str)] = "0" /\ str[Len(str) - 1] = "0"
  THEN StripRight(SubSeq(str, 1, Len(str) - 2))
  ELSE str

\* The loop of hexToUtf8: parseInt(hex.substr(i, 2), 16) for i = 0, 2, ...
RECURSIVE CharCodes(_)
CharCodes(hex) ==
  IF Len(hex) = 0 THEN <<>>
  ELSE IF Len(hex) = 1 THEN <<HexVal(hex[1])>>
  ELSE <<16 * HexVal(hex[1]) + HexVal(hex[2])>> \o CharCodes(SubSeq(hex, 3, Len(hex)))

\* web3-utils hexToUtf8(hex): throws when hex is not strict hex, and when
\* utf8.decode meets a byte that starts no UTF-8 sequence (of the bytes
\* over HexDigits those from 0xa0 on, which are continuation bytes).
hexToUtf8(data) ==
  IF ~isHexStrict(data) THEN [threw |-> TRUE, codes |-> <<>>]
  ELSE LET codes == CharCodes(StripRight(StripLeft(SubSeq(data, 3, Len(data)))))
       IN IF \E i \in 1..Len(codes) : codes[i] >= 128
          THEN [threw |-> TRUE, codes |-> <<>>]
          ELSE [threw |-> FALSE, codes |-> codes]

\* ------------------------------------------------- getLatestMessageParams
\* The value of {} (no msg found).
NoMessage == [msg |-> "null", id |-> Undefined, time |-> 0]

\* One for-in loop of getLatestMessageParams over the collection of `kind`,
\* with acc = [time, msg, finalId] the loop's running variables. A variant
\* that replaces on an equal time, too.
RECURSIVE ScanNotLess(_, _, _)
ScanNotLess(kind, ids, acc) ==
  IF ids = {} THEN acc
  ELSE LET id == Min(ids)
           msgTime == Collection(kind)[id].time
       IN ScanNotLess(kind, ids \ {id},
            IF msgTime >= acc.time
            THEN [time |-> msgTime, msg |-> kind, finalId |-> id]
            ELSE acc)

RECURSIVE Scan(_, _, _)
Scan(kind, ids, acc) ==
  IF ids = {} THEN acc
  ELSE LET id == Min(ids)
           msgTime == Collection(kind)[id].time
       IN Scan(kind, ids \ {id},
            IF msgTime > acc.time
            THEN [time |-> msgTime, msg |-> kind, finalId |-> id]
            ELSE acc)

\* A variant that leaves out the loop over the typed messages.
getLatestMessageParamsNoTyped ==
  LET a0 == [time |-> 0, msg |-> "null", finalId |-> 0]
      a1 == Scan("plain", Keys(unapprovedMsgs), a0)
      a2 == Scan("personal", Keys(unapprovedPersonalMsgs), a1)
  IN IF a2.msg = "null" THEN NoMessage
     ELSE [msg |-> a2.msg, id |-> a2.finalId, time |-> a2.time]

\* getLatestMessageParams(): the entry found (its kind, its key, its time), or
\* NoMessage for {}.
getLatestMessageParams ==
  LET a0 == [time |-> 0, msg |-> "null", finalId |-> 0]
      a1 == Scan("plain", Keys(unapprovedMsgs), a0)
      a2 == Scan("personal", Keys(unapprovedPersonalMsgs), a1)
      a3 == Scan("typed", Keys(unapprovedTypedMessages), a2)
  IN IF a3.msg = "null" THEN NoMessage
     ELSE [msg |-> a3.msg, id |-> a3.finalId, time |-> a3.time]

\* A variant of the try/catch that has no catch: a failed decoding leaves
\* msgParams.message as it was.
WithMessageNoFallback(entry) ==
  LET r == hexToUtf8(entry.data)
  IN IF r.threw THEN entry ELSE [entry EXCEPT !.message = Decoded(r.codes)]

\* The try/catch of getLatestMessageParams on the entry found by the first
\* two loops: msg.msgParams.message is the decoded text, or the data when
\* hexToUtf8 threw.
WithMessage(entry) ==
  LET r == hexToUtf8(entry.data)
  IN [entry EXCEPT !.message = IF r.threw THEN RawText(entry.data)
                                ELSE Decoded(r.codes)]

\* The entry found by the loops over the plain and the personal messages.
FoundUntyped ==
  Scan("personal", Keys(unapprovedPersonalMsgs),
       Scan("plain", Keys(unapprovedMsgs), [time |-> 0, msg |-> "null", finalId |-> 0]))

\* The keys of the typed messages that the third loop takes as msg, each
\* for having a time above the running one.
RECURSIVE Taken(_, _)
Taken(ids, time) ==
  IF ids = {} THEN {}
  ELSE LET id == Min(ids)
           msgTime == unapprovedTypedMessages[id].time
       IN IF msgTime > time
          THEN {id} \cup Taken(ids \ {id}, msgTime)
          ELSE Taken(ids \ {id}, time)

\* The collection of `kind` when getLatestMessageParams() has returned: the
\* entry found by the first two loops carries its message, every typed entry
\* taken by the third carries its typedMessages.
Shown(kind) ==
  [id \in Keys(Collection(kind)) |->
     LET entry == Collection(kind)[id]
     IN IF kind # "typed"
        THEN IF FoundUntyped.msg = kind /\ FoundUntyped.finalId = id
             THEN WithMessage(entry)
             ELSE entry
        ELSE IF id \in Taken(Keys(unapprovedTypedMessages), FoundUntyped.time)
             THEN [entry EXCEPT !.typedMessages = RawText(entry.data)]
             ELSE entry]

\* ----------------------------------------------------- isTorusTransaction
\* A variant that tests state.transactions instead of the unapproved ones.
isTorusTransactionAnyStatus ==
  IF Keys(unapprovedPersonalMsgs) # {} THEN "false"
  ELSE IF Keys(unapprovedMsgs) # {} THEN "false"
  ELSE IF Keys(unapprovedTypedMessages) # {} THEN "false"
  ELSE IF Keys(transactions) # {} THEN "true"
  ELSE "throw"

\* A variant that leaves out the test of the typed messages.
isTorusTransactionNoTyped ==
  IF Keys(unapprovedPersonalMsgs) # {} THEN "false"
  ELSE IF Keys(unapprovedMsgs) # {} THEN "false"
  ELSE IF Len(unApprovedTransactions) > 0 THEN "true"
  ELSE "throw"

\* isTorusTransaction(): "true", "false", or "throw" for the Error
\* 'No new transactions.'
isTorusTransaction ==
  IF Keys(unapprovedPersonalMsgs) # {} THEN "false"
  ELSE IF Keys(unapprovedMsgs) # {} THEN "false"
  ELSE IF Keys(unapprovedTypedMessages) # {} THEN "false"
  ELSE IF Len(unApprovedTransactions) > 0 THEN "true"
  ELSE "throw"

\* ------------------------------------------------ the registry as an input
Slots == MsgKinds \X Ids

\* The entries of the three message collections, as <<kind, id>>.
PendingMessages == {slot \in Slots : slot[2] \in Keys(Collection(slot[1]))}

TimeOf(slot) == Collection(slot[1])[slot[2]].time

\* A request as it is added: msgParams has no message and no typedMessages.
NewMessage(time, data) ==
  [time |-> time, data |-> data, message |-> NoText, typedMessages |-> NoText]

\* The message collection of `kind` when the slots S hold the times f and
\* the data d.
Filled(S, f, d, kind) ==
  [id \in {i \in Ids : <<kind, i>> \in S} |->
     NewMessage(f[<<kind, id>>], d[<<kind, id>>])]

\* Every registry of at most MaxEntries entries.
InitRegistry ==
  \E S \in {T \in SUBSET Slots : Cardinality(T) <= MaxEntries} :
    \E X \in {Y \in SUBSET Ids : Cardinality(Y) + Cardinality(S) <= MaxEntries} :
      \E f \in [S -> Times], d \in [S -> DataValues] :
        \E g \in [X -> TxStatuses] :
          /\ unapprovedMsgs = Filled(S, f, d, "plain")
          /\ unapprovedPersonalMsgs = Filled(S, f, d, "personal")
          /\ unapprovedTypedMessages = Filled(S, f, d, "typed")
          /\ transactions = [id \in X |-> [status |-> g[id]]]

InitFunctions ==
  /\ InitRegistry
  /\ sessions = <<>>
  /\ calls = <<>>
  /\ created = 0
  /\ last = Step("init", 0, NoEvent, "none")
  /\ ret = NoReturn
  /\ IdlePipeline
  /\ IdleSurface

CallGetLatestMessageParams ==
  /\ ret' = [fn |-> "getLatestMessageParams", value |-> getLatestMessageParams]
  /\ last' = Step("getLatestMessageParams", 0, NoEvent, "none")
  /\ unapprovedMsgs' = Shown("plain")
  /\ unapprovedPersonalMsgs' = Shown("personal")
  /\ unapprovedTypedMessages' = Shown("typed")
  /\ UNCHANGED <<transactions, sessions, calls, created, pipeline, providerChange>>

CallIsTorusTransaction ==
  /\ ret' = [fn |-> "isTorusTransaction", value |-> isTorusTransaction]
  /\ last' = Step("isTorusTransaction", 0, NoEvent, "none")
  /\ UNCHANGED <<registry, sessions, calls, created, pipeline, providerChange>>

NextFunctions ==
  \/ CallGetLatestMessageParams
  \/ CallIsTorusTransaction

\* The two registry functions applied to every registry within the bounds.
SpecFunctions == InitFunctions /\ [][NextFunctions]_vars

\* ------------------------------------------ handleConfirm and handleDeny
\* ev.data of the messages a listener can receive: the string 'popup-loaded'
\* (which has no id and no type), and the two decisions.
Ready == [type |-> "popup-loaded", id |-> Undefined]

Decisions ==
  [type : {"confirm-transaction", "deny-transaction"}, id : Ids \cup {Undefined}]

Events == {Ready} \cup Decisions

\* What a handler did: whether it threw, and the calls it made on
\* torusController before that.
Threw == [threw |-> TRUE, made |-> <<>>]
Made(fn, id) == [threw |-> FALSE, made |-> <<[fn |-> fn, id |-> id]>>]

\* The ids of getters.unApprovedTransactions.
UnapprovedIds == {id \in Keys(transactions) : transactions[id].status = "unapproved"}

\* handleConfirm(ev), with gasPrice whether ev.data.gasPrice is set.
\* state.unapprovedXxx[ev.data.id].msgParams is a TypeError when the
\* collection has no such key; JSON.parse(JSON.stringify(undefined)) is a
\* SyntaxError. updateTransaction (the changed gas price) is not recorded.
handleConfirm(ev, gasPrice) ==
  IF Keys(unapprovedPersonalMsgs) # {}
  THEN IF ev.id \in Keys(unapprovedPersonalMsgs)
       THEN Made("signPersonalMessage", parseInt(ev.id)) ELSE Threw
  ELSE IF Keys(unapprovedMsgs) # {}
  THEN IF ev.id \in Keys(unapprovedMsgs)
       THEN Made("signMessage", parseInt(ev.id)) ELSE Threw
  ELSE IF Keys(unapprovedTypedMessages) # {}
  THEN IF ev.id \in Keys(unapprovedTypedMessages)
       THEN Made("signTypedMessage", parseInt(ev.id)) ELSE Threw
  ELSE IF Keys(transactions) # {}
  THEN LET txMeta == IF ev.id \in UnapprovedIds THEN ev.id ELSE Undefined
       IN IF gasPrice /\ txMeta = Undefined THEN Threw
          ELSE Made("updateAndApproveTransaction", txMeta)
  ELSE Threw

\* handleDeny(id)
handleDeny(id) ==
  IF Keys(unapprovedPersonalMsgs) # {}
  THEN Made("cancelPersonalMessage", parseInt(id))
  ELSE IF Keys(unapprovedMsgs) # {}
  THEN Made("cancelMessage", parseInt(id))
  ELSE IF Keys(unapprovedTypedMessages) # {}
  THEN Made("cancelTypedMessage", parseInt(id))
  ELSE IF Keys(transactions) # {}
  THEN Made("cancelTransaction", parseInt(id))
  ELSE [threw |-> FALSE, made |-> <<>>]

\* The kind of request a torusController operation works on, and whether it
\* accepts or rejects.
KindOf(fn) ==
  CASE fn \in {"signPersonalMessage", "cancelPersonalMessage"} -> "personal"
    [] fn \in {"signMessage", "cancelMessage"} -> "plain"
    [] fn \in {"signTypedMessage", "cancelTypedMessage"} -> "typed"
    [] fn \in {"updateAndApproveTransaction", "cancelTransaction"} -> "transaction"

Accepts(fn) ==
  fn \in {"signPersonalMessage", "signMessage", "signTypedMessage",
          "updateAndApproveTransaction"}

\* --------------------------------------------- the signing collaborator
\* A collection of messages without the key id.
Without(coll, id) == [k \in Keys(coll) \ {id} |-> coll[k]]

\* The registry after the calls `made`: the request an operation is called
\* for leaves the unapproved state (a message leaves its collection, a
\* transaction changes its status); a call for an id that is not pending
\* changes nothing.
Settled(kind, made) ==
  LET hit == {made[i].id : i \in {j \in DOMAIN made : KindOf(made[j].fn) = kind}}
  IN IF kind = "transaction"
     THEN [id \in Keys(transactions) |->
             IF id \in hit /\ transactions[id].status = "unapproved"
             THEN [status |->
                     IF \E i \in DOMAIN made : made[i].id = id /\ Accepts(made[i].fn)
                     THEN "approved" ELSE "rejected"]
             ELSE transactions[id]]
     ELSE [id \in Keys(Collection(kind)) \ hit |-> Collection(kind)[id]]

Collaborator(made) ==
  /\ unapprovedMsgs' = Settled("plain", made)
  /\ unapprovedPersonalMsgs' = Settled("personal", made)
  /\ unapprovedTypedMessages' = Settled("typed", made)
  /\ transactions' = Settled("transaction", made)

\* Request id of `kind` is unapproved.
Pending(kind, id) ==
  IF kind = "transaction" THEN id \in UnapprovedIds
  ELSE id \in Keys(Collection(kind))

\* The entries of `made` as entries of the log: with the session that made
\* them, the handler they were made from, the session's txId at the call and
\* whether the request called for was unapproved then.
Logged(made, s, from) ==
  [i \in DOMAIN made |->
     [fn |-> made[i].fn, id |-> made[i].id, s |-> s, from |-> from,
      txId |-> sessions[s].txId,
      pending |-> Pending(KindOf(made[i].fn), made[i].id)]]

\* ------------------------------------------------------------ showPopup
\* A variant of the closure that opens the message layout for every kind.
NewSessionOneLayout(isTx) ==
  [ isTx |-> isTx,
    bc |-> "open",
    onmessage |-> isTx # "throw",
    confirmWindow |-> IF isTx = "throw" THEN "none" ELSE "open",
    width |-> IF isTx = "throw" THEN 0 ELSE 500,
    height |-> IF isTx = "throw" THEN 0 ELSE 400,
    iClosedConfirmWindow |-> FALSE,
    txId |-> Undefined,
    selected |->
      IF isTx = "true"
      THEN [msg |-> "transaction",
            id |-> unApprovedTransactions[Len(unApprovedTransactions)]]
      ELSE IF isTx = "false"
      THEN [msg |-> getLatestMessageParams.msg, id |-> getLatestMessageParams.id]
      ELSE [msg |-> "null", id |-> Undefined],
    confirmTimer |-> IF isTx = "throw" THEN "none" ELSE "running",
    inbox |-> <<>>,
    posted |-> 0,
    denied |-> 0 ]

\* The closure of one showPopup invocation. iClosedConfirmWindow starts
\* undefined, which is tested like false. The inbox holds the messages
\* posted on the channel that bc has not been handed yet; posted counts the
\* payloads bc has posted, denied the handleDeny(txId) of the watchdog.
NewSession(isTx) ==
  [ isTx |-> isTx,
    bc |-> "open",
    onmessage |-> isTx # "throw",
    confirmWindow |-> IF isTx = "throw" THEN "none" ELSE "open",
    width |-> IF isTx = "throw" THEN 0 ELSE 500,
    height |-> IF isTx = "throw" THEN 0 ELSE IF isTx = "true" THEN 660 ELSE 400,
    iClosedConfirmWindow |-> FALSE,
    txId |-> Undefined,
    selected |->
      IF isTx = "true"
      THEN [msg |-> "transaction",
            id |-> unApprovedTransactions[Len(unApprovedTransactions)]]
      ELSE IF isTx = "false"
      THEN [msg |-> getLatestMessageParams.msg, id |-> getLatestMessageParams.id]
      ELSE [msg |-> "null", id |-> Undefined],
    confirmTimer |-> IF isTx = "throw" THEN "none" ELSE "running",
    inbox |-> <<>>,
    posted |-> 0,
    denied |-> 0 ]

\* showPopup(): the channel is created, then isTorusTransaction() runs (its
\* throw ends the action), the window is opened, the request is selected,
\* the listener is set and the watchdog is started.
ShowPopup ==
  /\ Len(sessions) < MaxSessions
  /\ sessions' = Append(sessions, NewSession(isTorusTransaction))
  /\ last' = Step("showPopup", Len(sessions) + 1, NoEvent, isTorusTransaction)
  /\ IF isTorusTransaction = "false"
     THEN /\ unapprovedMsgs' = Shown("plain")
          /\ unapprovedPersonalMsgs' = Shown("personal")
          /\ unapprovedTypedMessages' = Shown("typed")
     ELSE UNCHANGED <<unapprovedMsgs, unapprovedPersonalMsgs, unapprovedTypedMessages>>
  /\ UNCHANGED <<transactions, calls, created, ret, pipeline, providerChange>>

\* bc.close(), txId = undefined and the flag's new value, shared by the
\* decision branch and the watchdog.
Closed(session, flag, window) ==
  [session EXCEPT !.bc = "closed", !.inbox = <<>>, !.txId = Undefined,
                  !.iClosedConfirmWindow = flag, !.confirmWindow = window]

\* A variant of the listener's first test: a message with another id is not
\* ignored.
IgnoredNever(session, ev) == FALSE

\* if (txId !== undefined && txId !== ev.data.id) return
Ignored(session, ev) == session.txId # Undefined /\ session.txId # ev.id

\* A variant of the listener that takes a ready signal whatever txId is.
OnMessageReadyAlways(s, gasPrice) ==
  /\ s \in DOMAIN sessions
  /\ sessions[s].bc = "open"
  /\ sessions[s].onmessage
  /\ sessions[s].inbox # <<>>
  /\ LET session == sessions[s]
         ev == Head(session.inbox)
         rest == [session EXCEPT !.inbox = Tail(session.inbox)]
     IN IF ev = Ready
        THEN /\ sessions' = [sessions EXCEPT ![s] =
                  [rest EXCEPT !.txId = session.selected.id,
                               !.posted = session.posted + 1]]
             /\ last' = Step("onmessage", s, ev, "popup-loaded")
             /\ UNCHANGED <<registry, calls>>
        ELSE IF Ignored(session, ev)
        THEN /\ sessions' = [sessions EXCEPT ![s] = rest]
             /\ last' = Step("onmessage", s, ev, "ignored")
             /\ UNCHANGED <<registry, calls>>
        ELSE LET did == IF ev.type = "confirm-transaction"
                        THEN handleConfirm(ev, gasPrice) ELSE handleDeny(ev.id)
             IN /\ calls' = calls \o Logged(did.made, s, "onmessage")
                /\ Collaborator(did.made)
                /\ sessions' = [sessions EXCEPT ![s] =
                     IF did.threw THEN rest ELSE Closed(rest, TRUE, "closed")]
                /\ last' = Step("onmessage", s, ev,
                                 IF did.threw THEN "threw" ELSE "decision")
  /\ UNCHANGED <<created, ret, pipeline, providerChange>>

\* bc.onmessage(ev) of session s, for the message at the head of its inbox;
\* gasPrice tells whether a confirm-transaction carries a gas price.
OnMessage(s, gasPrice) ==
  /\ s \in DOMAIN sessions
  /\ sessions[s].bc = "open"
  /\ sessions[s].onmessage
  /\ sessions[s].inbox # <<>>
  /\ LET session == sessions[s]
         ev == Head(session.inbox)
         rest == [session EXCEPT !.inbox = Tail(session.inbox)]
     IN IF Ignored(session, ev)
        THEN /\ sessions' = [sessions EXCEPT ![s] = rest]
             /\ last' = Step("onmessage", s, ev, "ignored")
             /\ UNCHANGED <<registry, calls>>
        ELSE IF ev = Ready /\ session.txId = Undefined
        THEN /\ sessions' = [sessions EXCEPT ![s] =
                  [rest EXCEPT !.txId = session.selected.id,
                               !.posted = session.posted + 1]]
             /\ last' = Step("onmessage", s, ev, "popup-loaded")
             /\ UNCHANGED <<registry, calls>>
        ELSE IF ev.type \in {"confirm-transaction", "deny-transaction"}
        THEN LET did == IF ev.type = "confirm-transaction"
                        THEN handleConfirm(ev, gasPrice) ELSE handleDeny(ev.id)
             IN /\ calls' = calls \o Logged(did.made, s, "onmessage")
                /\ Collaborator(did.made)
                /\ sessions' = [sessions EXCEPT ![s] =
                     IF did.threw THEN rest ELSE Closed(rest, TRUE, "closed")]
                /\ last' = Step("onmessage", s, ev,
                                 IF did.threw THEN "threw" ELSE "decision")
        ELSE /\ sessions' = [sessions EXCEPT ![s] = rest]
             /\ last' = Step("onmessage", s, ev, "none")
             /\ UNCHANGED <<registry, calls>>
  /\ UNCHANGED <<created, ret, pipeline, providerChange>>

\* A variant of the watchdog that leaves out handleDeny(txId).
ConfirmTimerNeverDenies(s) ==
  /\ s \in DOMAIN sessions
  /\ sessions[s].confirmTimer = "running"
  /\ IF sessions[s].confirmWindow = "closed"
     THEN /\ sessions' = [sessions EXCEPT ![s] =
               [Closed(sessions[s], FALSE, "undefined")
                  EXCEPT !.confirmTimer = "cleared"]]
          /\ last' = Step("confirmTimer", s, NoEvent, "closed")
          /\ UNCHANGED <<registry, calls>>
     ELSE /\ last' = Step("confirmTimer", s, NoEvent, "open")
          /\ UNCHANGED <<registry, sessions, calls>>
  /\ UNCHANGED <<created, ret, pipeline, providerChange>>

\* A variant of the watchdog with a deadline: it denies and tears the
\* session down whether the window is closed or not.
ConfirmTimerDeadline(s) ==
  /\ s \in DOMAIN sessions
  /\ sessions[s].confirmTimer = "running"
  /\ LET session == sessions[s]
         deny == ~session.iClosedConfirmWindow
         did == IF deny THEN handleDeny(session.txId)
                ELSE [threw |-> FALSE, made |-> <<>>]
     IN /\ calls' = calls \o Logged(did.made, s, "confirmTimer")
        /\ Collaborator(did.made)
        /\ sessions' = [sessions EXCEPT ![s] =
             [Closed(session, FALSE, "undefined")
                EXCEPT !.confirmTimer = "cleared",
                       !.denied = session.denied + (IF deny THEN 1 ELSE 0)]]
        /\ last' = Step("confirmTimer", s, NoEvent, "closed")
  /\ UNCHANGED <<created, ret, pipeline, providerChange>>

\* A variant of the watchdog that does not reset iClosedConfirmWindow.
ConfirmTimerKeepsFlag(s) ==
  /\ s \in DOMAIN sessions
  /\ sessions[s].confirmTimer = "running"
  /\ LET session == sessions[s]
         deny == ~session.iClosedConfirmWindow
         did == IF deny THEN handleDeny(session.txId)
                ELSE [threw |-> FALSE, made |-> <<>>]
     IN IF session.confirmWindow = "closed"
        THEN /\ calls' = calls \o Logged(did.made, s, "confirmTimer")
             /\ Collaborator(did.made)
             /\ sessions' = [sessions EXCEPT ![s] =
                  [Closed(session, session.iClosedConfirmWindow, "undefined")
                     EXCEPT !.confirmTimer = "cleared",
                            !.denied = session.denied + (IF deny THEN 1 ELSE 0)]]
             /\ last' = Step("confirmTimer", s, NoEvent, "closed")
        ELSE /\ last' = Step("confirmTimer", s, NoEvent, "open")
             /\ UNCHANGED <<registry, sessions, calls>>
  /\ UNCHANGED <<created, ret, pipeline, providerChange>>

\* One tick of confirmTimer, the setInterval callback of session s.
ConfirmTimer(s) ==
  /\ s \in DOMAIN sessions
  /\ sessions[s].confirmTimer = "running"
  /\ LET session == sessions[s]
         deny == ~session.iClosedConfirmWindow
         did == IF deny THEN handleDeny(session.txId)
                ELSE [threw |-> FALSE, made |-> <<>>]
     IN IF session.confirmWindow = "closed"
        THEN /\ calls' = calls \o Logged(did.made, s, "confirmTimer")
             /\ Collaborator(did.made)
             /\ sessions' = [sessions EXCEPT ![s] =
                  [Closed(session, FALSE, "undefined")
                     EXCEPT !.confirmTimer = "cleared",
                            !.denied = session.denied + (IF deny THEN 1 ELSE 0)]]
             /\ last' = Step("confirmTimer", s, NoEvent, "closed")
        ELSE /\ last' = Step("confirmTimer", s, NoEvent, "open")
             /\ UNCHANGED <<registry, sessions, calls>>
  /\ UNCHANGED <<created, ret, pipeline, providerChange>>

\* ------------------------------------------------------- the environment
\* The sessions whose channel hands them what is posted.
Listeners == {s \in DOMAIN sessions : sessions[s].bc = "open" /\ sessions[s].onmessage}

\* An approval window posts ev on the channel torus_channel_<instanceId>:
\* every open channel of that name with a listener receives it.
PostMessage(ev) ==
  /\ \E s \in DOMAIN sessions : sessions[s].confirmWindow = "open"
  /\ Listeners # {}
  /\ \A s \in Listeners : Len(sessions[s].inbox) < MaxInbox
  /\ sessions' = [s \in DOMAIN sessions |->
       IF s \in Listeners
       THEN [sessions[s] EXCEPT !.inbox = Append(sessions[s].inbox, ev)]
       ELSE sessions[s]]
  /\ last' = Step("postMessage", 0, ev, "none")
  /\ UNCHANGED <<registry, calls, created, ret, pipeline, providerChange>>

\* The user closes the approval window of session s.
UserClosesWindow(s) ==
  /\ s \in DOMAIN sessions
  /\ sessions[s].confirmWindow = "open"
  /\ sessions' = [sessions EXCEPT ![s].confirmWindow = "closed"]
  /\ last' = Step("userClosesWindow", s, NoEvent, "none")
  /\ UNCHANGED <<registry, calls, created, ret, pipeline, providerChange>>

\* No torusController operation was called for request id of `kind`.
NeverCalled(kind, id) ==
  \A i \in DOMAIN calls : ~(KindOf(calls[i].fn) = kind /\ calls[i].id = id)

\* A new unapproved request enters the registry, with the time of its
\* creation and an id that is new in its collection: ids grow, and a request
\* that was settled does not come back. Time does not go back, and it
\* advances by at most one unit from the pending messages' times.
AddRequest(kind, id, time) ==
  /\ created < MaxPending
  /\ \A k \in Keys(Collection(kind)) : k < id
  /\ NeverCalled(kind, id)
  /\ \A slot \in PendingMessages : TimeOf(slot) <= time
  /\ time = 1 \/ \E slot \in PendingMessages : time <= TimeOf(slot) + 1
  /\ unapprovedMsgs' =
       IF kind = "plain" THEN unapprovedMsgs @@ (id :> NewMessage(time, DefaultData))
       ELSE unapprovedMsgs
  /\ unapprovedPersonalMsgs' =
       IF kind = "personal" THEN unapprovedPersonalMsgs @@ (id :> NewMessage(time, DefaultData))
       ELSE unapprovedPersonalMsgs
  /\ unapprovedTypedMessages' =
       IF kind = "typed" THEN unapprovedTypedMessages @@ (id :> NewMessage(time, DefaultData))
       ELSE unapprovedTypedMessages
  /\ transactions' =
       IF kind = "transaction" THEN transactions @@ (id :> [status |-> "unapproved"])
       ELSE transactions
  /\ created' = created + 1
  /\ last' = Step("addRequest", 0, NoEvent, kind)
  /\ UNCHANGED <<sessions, calls, ret, pipeline, providerChange>>

Init ==
  /\ unapprovedMsgs = <<>>
  /\ unapprovedPersonalMsgs = <<>>
  /\ unapprovedTypedMessages = <<>>
  /\ transactions = <<>>
  /\ sessions = <<>>
  /\ calls = <<>>
  /\ created = 0
  /\ last = Step("init", 0, NoEvent, "none")
  /\ ret = NoReturn
  /\ IdlePipeline
  /\ IdleSurface

Next ==
  \/ \E kind \in Kinds, id \in Ids, time \in Times : AddRequest(kind, id, time)
  \/ ShowPopup
  \/ \E ev \in Events : PostMessage(ev)
  \/ \E s \in 1..MaxSessions, gasPrice \in BOOLEAN : OnMessage(s, gasPrice)
  \/ \E s \in 1..MaxSessions : ConfirmTimer(s)
  \/ \E s \in 1..MaxSessions : UserClosesWindow(s)

Spec == Init /\ [][Next]_vars

\* setInterval(..., 1000) keeps calling the watchdog of a session until
\* clearInterval(confirmTimer).
SpecLive == Spec /\ \A s \in 1..MaxSessions : WF_vars(ConfirmTimer(s))

\* ------------------------------------------- claims on the two functions
MaxTimeMessages ==
  {slot \in PendingMessages : \A other \in PendingMessages : TimeOf(other) <= TimeOf(slot)}

\* The position of a collection in the scan of getLatestMessageParams.
ScanOrder(kind) ==
  CASE kind = "plain" -> 1 [] kind = "personal" -> 2 [] kind = "typed" -> 3

LatestReturned == ret.fn = "getLatestMessageParams"

\* C8: for any non-empty set of pending messages over the plain, personal and
\* typed collections, getLatestMessageParams returns an entry whose time is
\* maximal among all entries of the three collections, with that entry's id.
C8_LatestIsMaximal ==
  (LatestReturned /\ PendingMessages # {}) =>
    /\ ret.value # NoMessage
    /\ <<ret.value.msg, ret.value.id>> \in MaxTimeMessages

\* C8's case: the maximum is held by a typed message while plain and personal
\* messages are pending as well.
C8_Witness ==
  /\ LatestReturned
  /\ Keys(unapprovedMsgs) # {}
  /\ Keys(unapprovedPersonalMsgs) # {}
  /\ ret.value.msg = "typed"
  /\ \E slot \in PendingMessages : TimeOf(slot) < ret.value.time

\* Two pending messages of different kinds share the maximal time.
TieAcrossKinds ==
  \E a, b \in MaxTimeMessages : a[1] # b[1]

\* C9 as stated: when two pending messages of different kinds share the same
\* maximal time, the one from the collection scanned last (plain, personal,
\* typed) is returned.
C9_LastScannedWins ==
  (LatestReturned /\ TieAcrossKinds) =>
    \A slot \in MaxTimeMessages : ScanOrder(slot[1]) <= ScanOrder(ret.value.msg)

\* C9 as amended: when two pending messages of different kinds share the same
\* maximal time, the one from the collection scanned first (plain, personal,
\* typed) is returned: plain wins over personal, personal over typed.
C9_FirstScannedWins ==
  (LatestReturned /\ TieAcrossKinds) =>
    /\ <<ret.value.msg, ret.value.id>> \in MaxTimeMessages
    /\ \A slot \in MaxTimeMessages : ScanOrder(ret.value.msg) <= ScanOrder(slot[1])

\* C9's case: a personal and a typed message share the maximal time, and the
\* function has returned.
C9_Witness ==
  /\ LatestReturned
  /\ \E a, b \in MaxTimeMessages : a[1] = "personal" /\ b[1] = "typed"
  /\ ret.value.msg = "personal"

\* C10: isTorusTransaction fails ('No new transactions.') if and only if the
\* four collections of pending requests (unapproved transactions, plain,
\* personal and typed messages) are all empty.
C10_ThrowsIffAllEmpty ==
  (ret.fn = "isTorusTransaction") =>
    ((ret.value = "throw") <=>
       /\ Keys(unapprovedMsgs) = {}
       /\ Keys(unapprovedPersonalMsgs) = {}
       /\ Keys(unapprovedTypedMessages) = {}
       /\ \A id \in Keys(transactions) : transactions[id].status # "unapproved")

\* C10's case: the function has thrown, with no request pending and a
\* transaction that is no longer unapproved in state.transactions.
C10_Witness ==
  /\ ret.fn = "isTorusTransaction"
  /\ ret.value = "throw"
  /\ Keys(transactions) # {}

\* ------------------------------------------------- claims on the sessions
\* An approval session is active: its window is open or its watchdog runs.
Active(s) ==
  sessions[s].confirmWindow = "open" \/ sessions[s].confirmTimer = "running"

\* C1: at most one approval session is open at any time: a showPopup invoked
\* while an earlier session is active creates no second approval window and
\* no second listener on the channel.
C1_AtMostOneSession ==
  /\ Cardinality({s \in DOMAIN sessions : Active(s)}) <= 1
  /\ Cardinality({s \in DOMAIN sessions : sessions[s].confirmWindow = "open"}) <= 1
  /\ Cardinality(Listeners) <= 1

\* The calls made for the request id of `kind`.
CallsFor(kind, id) ==
  {i \in DOMAIN calls : KindOf(calls[i].fn) = kind /\ calls[i].id = id}

\* C2: every pending request is resolved at most once: the accept and reject
\* calls made for a request that was pending are at most one in total.
C2_ResolvedAtMostOnce ==
  \A kind \in Kinds, id \in Ids :
    (\E i \in CallsFor(kind, id) : calls[i].pending) =>
      Cardinality(CallsFor(kind, id)) <= 1

\* Session s is about to be handed a decision whose id is not its txId.
StaleDecision(s) ==
  /\ s \in DOMAIN sessions
  /\ sessions[s].inbox # <<>>
  /\ Head(sessions[s].inbox) \in Decisions
  /\ sessions[s].txId # Undefined
  /\ Head(sessions[s].inbox).id # sessions[s].txId

\* The state of a session that the claims speak of: correlationId, channel,
\* window, orchestrator-closed flag and watchdog.
SessionState(session) ==
  <<session.txId, session.bc, session.onmessage, session.confirmWindow,
    session.iClosedConfirmWindow, session.confirmTimer>>

\* C3: while txId is set, handling a decision message whose id differs from
\* txId leaves the session as it was (txId, channel, window, flag, watchdog),
\* makes no call on torusController and leaves the registry alone; as this
\* holds of every such step, it holds for any number of them.
C3_StaleDecisionIgnored ==
  [][\A s \in 1..MaxSessions :
       (StaleDecision(s) /\ \E gasPrice \in BOOLEAN : OnMessage(s, gasPrice)) =>
         /\ SessionState(sessions'[s]) = SessionState(sessions[s])
         /\ calls' = calls
         /\ registry' = registry]_vars

\* C3's case: a session whose txId is set has just been handed a decision
\* with another id.
C3_Witness ==
  /\ last.op = "onmessage"
  /\ last.ev \in Decisions
  /\ sessions[last.s].txId # Undefined
  /\ last.ev.id # sessions[last.s].txId
  /\ last.ev.id \in Ids

\* The watchdog of s will next see the window closed with no decision handled.
ClosedWithoutDecision(s) ==
  /\ s \in DOMAIN sessions
  /\ sessions[s].confirmTimer = "running"
  /\ sessions[s].confirmWindow = "closed"
  /\ ~sessions[s].iClosedConfirmWindow

SomeCollectionNonEmpty ==
  \/ Keys(unapprovedPersonalMsgs) # {}
  \/ Keys(unapprovedMsgs) # {}
  \/ Keys(unapprovedTypedMessages) # {}
  \/ Keys(transactions) # {}

\* The calls the step has added to the log.
NewCalls == {i \in DOMAIN calls' : i > Len(calls)}

\* C4: when the window was closed and no decision was handled, the watchdog's
\* next tick synthesizes the deny for the current txId once (handleDeny(txId):
\* one reject call for parseInt(txId) if a collection is non-empty, and no
\* accept) and stops the watchdog; no session's watchdog ever synthesizes a
\* second deny or makes a second call; and a closed window is seen by a
\* tick, which stops the watchdog.
C4_OneSynthesizedDeny ==
  /\ [][\A s \in 1..MaxSessions :
          (ClosedWithoutDecision(s) /\ ConfirmTimer(s)) =>
            /\ sessions'[s].denied = 1
            /\ sessions'[s].confirmTimer = "cleared"
            /\ Cardinality(NewCalls) = IF SomeCollectionNonEmpty THEN 1 ELSE 0
            /\ \A i \in NewCalls :
                 /\ ~Accepts(calls'[i].fn)
                 /\ calls'[i].id = parseInt(sessions[s].txId)
                 /\ calls'[i].s = s]_vars
  /\ [](\A s \in DOMAIN sessions :
         /\ sessions[s].denied <= 1
         /\ Cardinality({i \in DOMAIN calls :
                           calls[i].s = s /\ calls[i].from = "confirmTimer"}) <= 1)
  /\ \A s \in 1..MaxSessions :
       ClosedWithoutDecision(s) ~>
         (s \in DOMAIN sessions /\ sessions[s].confirmTimer = "cleared")

\* C4's case: the watchdog has just torn down a session whose window the
\* user closed after the handshake, and has made its reject call.
C4_Witness ==
  /\ last.op = "confirmTimer"
  /\ last.branch = "closed"
  /\ sessions[last.s].denied = 1
  /\ sessions[last.s].posted = 1
  /\ \E i \in DOMAIN calls :
       calls[i].s = last.s /\ calls[i].from = "confirmTimer" /\ calls[i].id \in Ids

\* C5: when the window opened, no ready signal was ever received and the
\* window was closed by the user, the session ends with txId unset and no
\* accept or reject operation was called for the unset id.
C5_NoCallForUnsetId ==
  \A s \in DOMAIN sessions :
    (sessions[s].confirmTimer = "cleared" /\ sessions[s].denied = 1
       /\ sessions[s].posted = 0) =>
      /\ sessions[s].txId = Undefined
      /\ \A i \in DOMAIN calls :
           ~(calls[i].s = s /\ calls[i].from = "confirmTimer")

\* C6: a confirm decision that carries the session's txId calls the accept
\* operation of the kind of the request selected for the session, for that
\* request.
C6_AcceptsSelectedRequest ==
  \A i \in DOMAIN calls :
    (Accepts(calls[i].fn) /\ calls[i].txId # Undefined) =>
      /\ KindOf(calls[i].fn) = sessions[calls[i].s].selected.msg
      /\ calls[i].id = sessions[calls[i].s].selected.id

\* C7: a deny decision for the session's txId, sent by the window or
\* synthesized by the watchdog, calls the reject operation of the kind of the
\* request selected for the session.
C7_RejectsSelectedKind ==
  \A i \in DOMAIN calls :
    (~Accepts(calls[i].fn) /\ calls[i].txId # Undefined) =>
      KindOf(calls[i].fn) = sessions[calls[i].s].selected.msg

\* ------------------------------------- claims on the classification
\* The message collections that have a key.
NonEmptyMsgKinds == {kind \in MsgKinds : Keys(Collection(kind)) # {}}

\* C11: isTorusTransaction returns true (transaction) when an unapproved
\* transaction is pending and the three message collections are empty, and
\* returns false (message) when exactly one message collection is non-empty
\* and no unapproved transaction is pending.
C11_ClassifiesSingleKind ==
  (ret.fn = "isTorusTransaction") =>
    /\ (UnapprovedIds # {} /\ NonEmptyMsgKinds = {}) => ret.value = "true"
    /\ (UnapprovedIds = {} /\ Cardinality(NonEmptyMsgKinds) = 1) =>
         ret.value = "false"

\* C11's case: the function has returned false with only typed messages
\* pending.
C11_Witness ==
  /\ ret.fn = "isTorusTransaction"
  /\ ret.value = "false"
  /\ UnapprovedIds = {}
  /\ NonEmptyMsgKinds = {"typed"}

\* C12: transactions take priority: a showPopup invoked while an unapproved
\* transaction is pending opens the transaction layout and selects a
\* transaction, whatever messages are pending.
C12_TransactionsFirst ==
  (last.op = "showPopup" /\ UnapprovedIds # {}) =>
    /\ sessions[last.s].isTx = "true"
    /\ sessions[last.s].height = 660
    /\ sessions[last.s].selected.msg = "transaction"

\* ------------------------------------------------- transformStream alone
InitTransform ==
  /\ unapprovedMsgs = <<>>
  /\ unapprovedPersonalMsgs = <<>>
  /\ unapprovedTypedMessages = <<>>
  /\ transactions = <<>>
  /\ sessions = <<>>
  /\ calls = <<>>
  /\ created = 0
  /\ last = Step("init", 0, NoEvent, "none")
  /\ ret = NoReturn
  /\ written \in Chunks
  /\ emitted = <<>>
  /\ runs = <<>>
  /\ IdleSurface

NextTransform == \E strict \in BOOLEAN : Transform(strict)

\* The transform applied up to MaxApplied times to every chunk within the
\* bounds.
SpecTransform == InitTransform /\ [][NextTransform]_vars

\* ------------------------------------------------ claims on the transform
Simulation(chunk) == chunk.method \in {"eth_call", "eth_estimateGas"}

\* C13: the transform is idempotent: for an eth_call or eth_estimateGas
\* request, whatever its from is, the request emitted by a second transform
\* is the request emitted by the first.
C13_TransformIdempotent ==
  (Simulation(written) /\ Len(emitted) = 2) =>
    /\ ~emitted[2].err
    /\ emitted[2].chunk = emitted[1].chunk

\* C13's case: a 0x-prefixed hex string was rewritten by the first transform
\* and the second transform has run.
C13_Witness ==
  /\ Simulation(written)
  /\ written.from = Str(<<"0", "x", "a", "1">>)
  /\ Len(emitted) = 2
  /\ emitted[1].chunk.from = Buf(<<161>>)

\* C14: the transform changes nothing but params[0].from of eth_call and
\* eth_estimateGas requests: a request with another method is emitted as it
\* was written, and an emitted simulation request differs from the written
\* one in params[0].from at most.
C14_OnlyFromOfSimulation ==
  (Len(emitted) >= 1) =>
    /\ ~Simulation(written) =>
         (~emitted[1].err /\ emitted[1].chunk = written)
    /\ (Simulation(written) /\ ~emitted[1].err) =>
         [emitted[1].chunk EXCEPT !.from = written.from] = written

\* C14's case: a request of another method whose from is a 0x-prefixed hex
\* string has passed the transform.
C14_Witness ==
  /\ Len(emitted) >= 1
  /\ written.method = "eth_getBalance"
  /\ written.from = Str(<<"0", "x", "a", "1">>)
  /\ emitted[1].chunk.from = Str(<<"0", "x", "a", "1">>)

\* The string is '0x' followed by pairs of hex digits.
IsHex(str) ==
  /\ Len(str) >= 2
  /\ str[1] = "0" /\ str[2] = "x"
  /\ Len(str) % 2 = 0
  /\ \A i \in 3..Len(str) : str[i] \in HexDigits

\* C15: for an eth_call or eth_estimateGas request the transform rewrites a
\* from that is a 0x-prefixed hex string to the bytes of its hex pairs, and
\* an absent from to an empty sequence.
C15_FromAsBytes ==
  (Len(emitted) >= 1 /\ Simulation(written) /\ written.params) =>
    /\ (written.from.t = "string" /\ IsHex(written.from.s)) =>
         /\ ~emitted[1].err
         /\ emitted[1].chunk.from.t = "Buffer"
         /\ Len(emitted[1].chunk.from.b) = (Len(written.from.s) - 2) \div 2
         /\ \A i \in 1..Len(emitted[1].chunk.from.b) :
              emitted[1].chunk.from.b[i] =
                16 * HexVal(written.from.s[2 * i + 1])
                  + HexVal(written.from.s[2 * i + 2])
    /\ written.from = NoFrom =>
         /\ ~emitted[1].err
         /\ emitted[1].chunk.from.t \in {"Array", "Buffer"}
         /\ emitted[1].chunk.from.b = <<>>

\* C15's case: the from '0x1a' of an eth_estimateGas request was rewritten
\* to the byte 26.
C15_Witness ==
  /\ Len(emitted) >= 1
  /\ written.method = "eth_estimateGas"
  /\ written.from = Str(<<"0", "x", "1", "a">>)
  /\ emitted[1].chunk.from = Buf(<<26>>)

\* ------------------------------------------------------- rpcEngine alone
InitEngine ==
  /\ unapprovedMsgs = <<>>
  /\ unapprovedPersonalMsgs = <<>>
  /\ unapprovedTypedMessages = <<>>
  /\ transactions = <<>>
  /\ sessions = <<>>
  /\ calls = <<>>
  /\ created = 0
  /\ last = Step("init", 0, NoEvent, "none")
  /\ ret = NoReturn
  /\ IdlePipeline
  /\ IdleSurface

NextEngine ==
  \/ \E req \in RpcRequests : Handle(req)
  \/ \E r \in 1..MaxRequests : OriginMiddleware(r)
  \/ \E r \in 1..MaxRequests : LoggerMiddleware(r)
  \/ \E r \in 1..MaxRequests : FilterMiddleware(r)
  \/ \E r \in 1..MaxRequests : ProviderMiddleware(r)
  \/ \E r \in 1..MaxRequests, err \in BOOLEAN : SendAsyncCallback(r, err)
  \/ \E r \in 1..MaxRequests : LoggerReturnHandler(r)
  \/ \E r \in 1..MaxRequests : Respond(r)

\* Up to MaxRequests requests handled by rpcEngine at the same time.
SpecEngine == InitEngine /\ [][NextEngine]_vars

\* ------------------------------------------------ claims on the engine
\* The stages run r has entered, in order.
StagesEntered(r) == [i \in DOMAIN runs[r].entered |-> runs[r].entered[i].stage]

\* The calls of next and end that `stage` has made in run r.
CallsOf(r, stage) ==
  {i \in DOMAIN runs[r].called : runs[r].called[i].stage = stage}

\* C16: every request passes the stages in the order origin, logger,
\* filter, provider: the stages a request has entered are a prefix of that
\* order (so none reaches the provider without the three before it), and
\* the request carries its origin when the logger is entered.
C16_FixedStageOrder ==
  \A r \in DOMAIN runs :
    /\ Len(StagesEntered(r)) <= Len(Stack)
    /\ StagesEntered(r) = SubSeq(Stack, 1, Len(StagesEntered(r)))
    /\ \A i \in DOMAIN runs[r].entered :
         runs[r].entered[i].stage \in {"logger", "filter", "provider"} =>
           runs[r].entered[i].origin = "torus"

\* C16's case: a request has reached the provider stage.
C16_Witness ==
  \E r \in DOMAIN runs :
    /\ Len(runs[r].entered) = 4
    /\ runs[r].entered[4].stage = "provider"
    /\ runs[r].entered[2].origin = "torus"

\* Run r is past `stage`: the stage was entered and has made its call (for
\* the provider, the callback of sendAsync has run).
Past(r, stage) ==
  /\ \E i \in DOMAIN runs[r].entered : runs[r].entered[i].stage = stage
  /\ IF stage = "provider" THEN runs[r].phase \in {"up", "hung", "done"}
     ELSE \/ runs[r].phase # "down"
          \/ Stack[runs[r].at] # stage

\* C17: for every request, each of the stages origin, logger and provider
\* calls next or end at most once in all, and has called one of them once
\* when it is done, whether sendAsync reported an error or not.
C17_NextOrEndOnce ==
  \A r \in DOMAIN runs :
    \A stage \in {"origin", "logger", "provider"} :
      /\ Cardinality(CallsOf(r, stage)) <= 1
      /\ Past(r, stage) => Cardinality(CallsOf(r, stage)) = 1

\* C17's case: sendAsync has reported an error and the provider stage has
\* ended the request.
C17_Witness ==
  \E r \in DOMAIN runs :
    /\ runs[r].res.error
    /\ \E i \in DOMAIN runs[r].called :
         runs[r].called[i] = [stage |-> "provider", call |-> "end"]

\* -------------------------------------------------- ProviderChange alone
InitSurface ==
  /\ unapprovedMsgs = <<>>
  /\ unapprovedPersonalMsgs = <<>>
  /\ unapprovedTypedMessages = <<>>
  /\ transactions = <<>>
  /\ sessions = <<>>
  /\ calls = <<>>
  /\ created = 0
  /\ last = Step("init", 0, NoEvent, "none")
  /\ ret = NoReturn
  /\ IdlePipeline
  /\ \E closable \in BOOLEAN : surface = NewSurface(closable)
  /\ channelLog = <<>>

NextSurface ==
  \/ Mounted
  \/ \E msg \in SurfaceMessages : SurfaceOnMessage(msg)
  \/ triggerSign
  \/ triggerDeny

\* One ProviderChange surface: mounted, handed messages, and clicked.
SpecSurface == InitSurface /\ [][NextSurface]_vars

\* ------------------------------------------------ claims on the surface
\* The operations of the user action `click`, in order.
OpsOf(click) == SelectSeq(channelLog, LAMBDA o : o.click = click)

\* C19: each user action on the network-change surface sends one decision,
\* with approve true for Confirm and false for Cancel, and sends it before
\* it closes its channel handle and its window: the operations of an action
\* are one postMessage of the decision, then the close of the handle, then
\* window.close().
C19_OneDecisionThenClose ==
  \A click \in 1..surface.clicks :
    /\ Len(OpsOf(click)) = 3
    /\ OpsOf(click)[1].op = "postMessage"
    /\ OpsOf(click)[2].op = "close"
    /\ OpsOf(click)[3].op = "window.close"
    /\ \/ /\ OpsOf(click)[1].by = "triggerSign"
          /\ OpsOf(click)[1].approve = "true"
       \/ /\ OpsOf(click)[1].by = "triggerDeny"
          /\ OpsOf(click)[1].approve = "false"

\* C19's case: Cancel then Confirm were clicked on a surface that had
\* received its payload.
C19_Witness ==
  /\ surface.clicks = 2
  /\ surface.payload # NoPayload
  /\ OpsOf(1)[1].approve = "false"
  /\ OpsOf(2)[1].approve = "true"

\* ------------------------------------------ further claims on the sessions
\* C18: the approval window is opened 500 wide and 660 high when the
\* pending work is classified as a transaction, and 500 wide and 400 high
\* when it is classified as a message.
C18_WindowSize ==
  \A s \in DOMAIN sessions :
    /\ sessions[s].isTx = "true" =>
         (sessions[s].width = 500 /\ sessions[s].height = 660)
    /\ sessions[s].isTx = "false" =>
         (sessions[s].width = 500 /\ sessions[s].height = 400)

\* C18's case: one window was opened for a transaction and one for a message.
C18_Witness ==
  \E s, t \in DOMAIN sessions :
    /\ sessions[s].isTx = "true" /\ sessions[s].height = 660
    /\ sessions[t].isTx = "false" /\ sessions[t].height = 400

\* Session s is about to be handed a ready signal.
ReadyNext(s) ==
  /\ s \in DOMAIN sessions
  /\ sessions[s].inbox # <<>>
  /\ Head(sessions[s].inbox) = Ready

\* C20: a ready signal is accepted only while txId is unset: handled with
\* txId unset it sets txId to the id of the selected request and posts the
\* payload; handled with txId set it changes neither txId nor anything else
\* of the session and posts nothing; so no session posts its payload twice.
C20_ReadyOnlyWhileUnset ==
  /\ [][\A s \in 1..MaxSessions :
          (ReadyNext(s) /\ \E gasPrice \in BOOLEAN : OnMessage(s, gasPrice)) =>
            IF sessions[s].txId = Undefined
            THEN /\ sessions'[s].txId = sessions[s].selected.id
                 /\ sessions'[s].txId # Undefined
                 /\ sessions'[s].posted = sessions[s].posted + 1
            ELSE /\ SessionState(sessions'[s]) = SessionState(sessions[s])
                 /\ sessions'[s].posted = sessions[s].posted]_vars
  /\ [](\A s \in DOMAIN sessions : sessions[s].posted <= 1)

\* C20's case: a second ready signal was handed to a session that had set
\* its txId and posted its payload.
C20_Witness ==
  /\ last.op = "onmessage"
  /\ last.ev = Ready
  /\ last.branch = "ignored"
  /\ sessions[last.s].txId # Undefined
  /\ sessions[last.s].posted = 1

\* ------------------------------------ claims on handshake and teardown
\* The id that classification and selection yield on the registry as it is
\* now: the last unapproved transaction, or the latest message.
SelectedNow ==
  IF isTorusTransaction = "true"
  THEN unApprovedTransactions[Len(unApprovedTransactions)]
  ELSE IF isTorusTransaction = "false" THEN getLatestMessageParams.id
  ELSE Undefined

\* C21: the request bound to the session is selected when the ready signal
\* is received: after the handshake, txId is the id that classification and
\* selection yield on the registry as it is at that moment.
C21_SelectedAtReady ==
  (last.op = "onmessage" /\ last.branch = "popup-loaded") =>
    sessions[last.s].txId = SelectedNow

\* Session s, whose txId the handshake has not set, is about to be handed a
\* decision.
EarlyDecision(s) ==
  /\ s \in DOMAIN sessions
  /\ sessions[s].inbox # <<>>
  /\ Head(sessions[s].inbox) \in Decisions
  /\ sessions[s].txId = Undefined

\* C22: a confirm or deny message handled before the handshake has set txId,
\* whatever id it carries, makes no call on torusController, settles no
\* request and closes neither the channel nor the window.
C22_NoDecisionBeforeReady ==
  [][\A s \in 1..MaxSessions :
       (EarlyDecision(s) /\ \E gasPrice \in BOOLEAN : OnMessage(s, gasPrice)) =>
         /\ calls' = calls
         /\ registry' = registry
         /\ sessions'[s].bc = sessions[s].bc
         /\ sessions'[s].confirmWindow = sessions[s].confirmWindow]_vars

\* Session s is about to be handed a decision that carries its txId.
MatchingDecision(s) ==
  /\ s \in DOMAIN sessions
  /\ sessions[s].inbox # <<>>
  /\ Head(sessions[s].inbox) \in Decisions
  /\ sessions[s].txId # Undefined
  /\ Head(sessions[s].inbox).id = sessions[s].txId

\* C23: once a confirm or deny decision with the matching id has been
\* handled, the channel is closed, the window is no longer open and the
\* session is marked closed by the orchestrator, also when the handler of
\* the decision fails.
C23_DecisionClosesSession ==
  [][\A s \in 1..MaxSessions :
       (MatchingDecision(s) /\ \E gasPrice \in BOOLEAN : OnMessage(s, gasPrice)) =>
         /\ sessions'[s].bc = "closed"
         /\ sessions'[s].confirmWindow # "open"
         /\ sessions'[s].iClosedConfirmWindow]_vars

\* C24: there is no deadline: a tick of the watchdog that finds the window
\* open synthesizes no deny, makes no call, and leaves the channel, txId and
\* the rest of the session as they were, however many ticks occur.
C24_NoDeadline ==
  [][\A s \in 1..MaxSessions :
       (s \in DOMAIN sessions /\ sessions[s].confirmWindow = "open"
          /\ ConfirmTimer(s)) =>
         /\ sessions' = sessions
         /\ calls' = calls
         /\ registry' = registry]_vars

\* C24's case: the watchdog has ticked on a session that waits for the
\* decision with its window open.
C24_Witness ==
  /\ last.op = "confirmTimer"
  /\ last.branch = "open"
  /\ sessions[last.s].txId # Undefined
  /\ sessions[last.s].confirmWindow = "open"
  /\ sessions[last.s].bc = "open"

\* The window of s is closed and its watchdog still runs.
WindowClosedTimerRuns(s) ==
  /\ s \in DOMAIN sessions
  /\ sessions[s].confirmWindow = "closed"
  /\ sessions[s].confirmTimer = "running"

\* Session s is torn down.
TornDown(s) ==
  /\ s \in DOMAIN sessions
  /\ sessions[s].confirmTimer = "cleared"
  /\ sessions[s].bc = "closed"
  /\ sessions[s].txId = Undefined
  /\ ~sessions[s].iClosedConfirmWindow

\* C25: once the window is closed, by the decision branch or by the user,
\* the watchdog's next tick tears the session down (timer cleared, channel
\* closed, txId unset, flag reset); with ticks that keep occurring this
\* happens eventually; and the watchdog of a session that is torn down does
\* not run again, so the session stays torn down.
C25_EventuallyTornDown ==
  /\ [][\A s \in 1..MaxSessions :
          /\ (WindowClosedTimerRuns(s) /\ ConfirmTimer(s)) => TornDown(s)'
          /\ TornDown(s) => (~ConfirmTimer(s) /\ TornDown(s)')]_vars
  /\ \A s \in 1..MaxSessions : WindowClosedTimerRuns(s) ~> TornDown(s)

\* C25's case: the watchdog has torn down a session whose window the
\* decision branch had closed.
C25_Witness ==
  /\ last.op = "confirmTimer"
  /\ last.branch = "closed"
  /\ TornDown(last.s)
  /\ sessions[last.s].denied = 0
  /\ \E i \in DOMAIN calls : calls[i].s = last.s /\ calls[i].from = "onmessage"

\* The request selected for session s is unapproved.
SelectedPending(s) ==
  /\ sessions[s].selected.msg \in Kinds
  /\ Pending(sessions[s].selected.msg, sessions[s].selected.id)

\* C26: closing the window without a decision never leaves the request
\* pending: whenever the user has closed the window of a session and no
\* decision was handled, the request selected for the session eventually
\* leaves the unapproved state.
C26_CloseIsDenial ==
  \A s \in 1..MaxSessions :
    ClosedWithoutDecision(s) ~> (s \in DOMAIN sessions /\ ~SelectedPending(s))

\* ------------------------------------ further claims on the provider side
\* C27: for an eth_call or eth_estimateGas request without params[0] the
\* transform reports an error and emits no request, converted or not, and
\* the stream transforms nothing after it.
C27_MalformedIsError ==
  (Simulation(written) /\ ~written.params /\ Len(emitted) >= 1) =>
    /\ emitted[1].err
    /\ emitted[1].chunk = NoChunk
    /\ Len(emitted) = 1

\* C27's case: an eth_call without params[0] has been transformed.
C27_Witness ==
  /\ written.method = "eth_call"
  /\ ~written.params
  /\ Len(emitted) = 1
  /\ emitted[1].err

\* C28: the logger is an observer: neither its middleware nor its return
\* handler changes the request or the response, for successful and for
\* error responses.
C28_LoggerObserves ==
  [][\A r \in 1..MaxRequests :
       (LoggerMiddleware(r) \/ LoggerReturnHandler(r)) =>
         /\ runs'[r].req = runs[r].req
         /\ runs'[r].res = runs[r].res]_vars

\* C28's case: the return handler of the logger has run on an error
\* response, which was then handed back.
C28_Witness ==
  \E r \in DOMAIN runs :
    /\ runs[r].res.error
    /\ runs[r].phase = "done"
    /\ \E i \in DOMAIN runs[r].entered : runs[r].entered[i].stage = "logger"

\* The fair engine: a return handler that can run does run, and a response
\* whose return handlers have all called back is handed back.
SpecEngineLive ==
  /\ SpecEngine
  /\ \A r \in 1..MaxRequests :
       WF_vars(LoggerReturnHandler(r)) /\ WF_vars(Respond(r))

\* The callback of provider.sendAsync has run for request r.
CalledBack(r) ==
  /\ r \in DOMAIN runs
  /\ \E i \in DOMAIN runs[r].called : runs[r].called[i].stage = "provider"

\* C29: every request for which provider.sendAsync has called back
\* eventually has its response handed back to the caller, whether it is
\* flagged isMetamaskInternal or not and whether the response is an error.
C29_ResponseReturned ==
  \A r \in 1..MaxRequests :
    CalledBack(r) ~> (r \in DOMAIN runs /\ runs[r].phase = "done")

\* ------------------------------------------------------------------ C30
\* The entry that the loops over the plain and the personal messages found,
\* before and after a step.
FoundEntry == Collection(FoundUntyped.msg)[FoundUntyped.finalId]
FoundEntryAfter == Collection(FoundUntyped.msg)'[FoundUntyped.finalId]

\* C30: when getLatestMessageParams finds a plain or a personal message, a
\* failure to decode its data as hex-encoded text is no error: the message
\* shown is the data as it is (the decoded text when decoding succeeds), the
\* function still returns an entry, which is the one found unless a typed
\* message is later, and the data of every pending message is what it was.
C30_DecodeFailureFallsBack ==
  [][(last'.op = "getLatestMessageParams" /\ FoundUntyped.msg # "null") =>
       /\ PendingMessages' = PendingMessages
       /\ \A slot \in PendingMessages :
            Collection(slot[1])'[slot[2]].data = Collection(slot[1])[slot[2]].data
       /\ IF hexToUtf8(FoundEntry.data).threw
          THEN FoundEntryAfter.message = RawText(FoundEntry.data)
          ELSE FoundEntryAfter.message = Decoded(hexToUtf8(FoundEntry.data).codes)
       /\ ret'.value # NoMessage
       /\ \/ ret'.value.msg = "typed"
          \/ /\ ret'.value.msg = FoundUntyped.msg
             /\ ret'.value.id = FoundUntyped.finalId]_vars

\* getLatestMessageParams has returned a plain or personal entry whose data
\* is no hex-encoded text, and the entry shows the data as its message.
C30_Witness ==
  /\ last.op = "getLatestMessageParams"
  /\ ret.value # NoMessage
  /\ ret.value.msg \in {"plain", "personal"}
  /\ LET entry == Collection(ret.value.msg)[ret.value.id]
     IN /\ hexToUtf8(entry.data).threw
        /\ entry.data = <<"0", "x", "a", "a">>
        /\ entry.message = RawText(entry.data)

\* ------------------------------------------------------------------ C31
\* The four collections hold no entry.
AllEmpty ==
  /\ Keys(unapprovedMsgs) = {}
  /\ Keys(unapprovedPersonalMsgs) = {}
  /\ Keys(unapprovedTypedMessages) = {}
  /\ Keys(transactions) = {}

\* C31: a showPopup that fails with 'No new transactions.' while all four
\* collections are empty leaves nothing of a session behind: no window was
\* opened, no watchdog was started, and its channel is neither open nor
\* listening.
C31_FailureLeavesNothing ==
  (last.op = "showPopup" /\ last.branch = "throw" /\ AllEmpty) =>
    /\ sessions[last.s].confirmWindow = "none"
    /\ sessions[last.s].confirmTimer = "none"
    /\ ~sessions[last.s].onmessage
    /\ sessions[last.s].bc # "open"

\* ------------------------------------------------------------------ C32
\* The operation a step has added last to the log of the channel.
Decided ==
  /\ Len(channelLog') > Len(channelLog)
  /\ channelLog'[Len(channelLog')].by \in {"triggerSign", "triggerDeny"}

\* C32: on the network-change surface no decision is sent while type is
\* 'none', that is before a payload was received; once a payload was
\* received the listener's handle is closed and the payload, the type and
\* the networks shown stay what they are; and every confirm decision carries
\* the network and the type of that payload.
C32_DecisionAfterFirstPayload ==
  /\ [][surface.type = "none" => ~Decided]_vars
  /\ [](surface.type # "none" => (surface.bc = "closed" /\ surface.payload \in Payloads))
  /\ [][surface.type # "none" =>
          /\ surface'.payload = surface.payload
          /\ surface'.type = surface.type
          /\ surface'.network = surface.network
          /\ surface'.rpcNetwork = surface.rpcNetwork]_vars
  /\ [](\A i \in DOMAIN channelLog :
          channelLog[i].type = "confirm-provider-change" =>
            channelLog[i].payload = surface.payload)

\* C32's case: the payload (localhost, rpc) was received, and Confirm was
\* clicked twice on a window that the script could not close.
C32_Witness ==
  /\ surface.payload = [network |-> "localhost", type |-> "rpc"]
  /\ surface.bc = "closed"
  /\ surface.clicks = 2
  /\ \A i \in DOMAIN channelLog :
       channelLog[i].op = "postMessage" /\ channelLog[i].click > 0 =>
         channelLog[i].type = "confirm-provider-change"

=============================================================================
